---- MODULE Spec2Model ----
(***************************************************************************)
(* CustomSessionStorage (src/auth/session/storage/custom.ts), the test     *)
(* helper queryArgs and the dispatcher triggerAfterAuthHook.               *)
(*                                                                         *)
(* JavaScript values are records [t, s, n]: t is the type tag, s the       *)
(* string payload, n the numeric payload (for an object: its address in    *)
(* heap).  Objects live in heap, so that identity and in-place mutation    *)
(* are visible.                                                            *)
(***************************************************************************)
EXTENDS Naturals, Sequences, FiniteSets, TLC

VARIABLES
  cfg,        \* which optional callbacks the constructor received
  heap,       \* address -> object
  store,      \* the backend behind the callbacks: id -> reference or undefined
  snap,       \* history: id -> the object as it was when it was stored
  handedOut,  \* history: live objects that earlier loadSession calls returned
  last,       \* the last adapter call: arguments, callback outcome, outcome
  qIn,        \* queryArgs: the query mapping, the secret and the clock
  qOut,       \* queryArgs: the parameters emitted and the hmac
  hookCfg,    \* config.hooks.afterAuth registered?, config.isEmbeddedApp
  hookLog,    \* every afterAuth invocation so far
  hookLast    \* the last triggerAfterAuthHook call

storageVars == <<cfg, heap, store, snap, handedOut, last>>
queryVars == <<qIn, qOut>>
hookVars == <<hookCfg, hookLog, hookLast>>
vars == <<cfg, heap, store, snap, handedOut, last, qIn, qOut, hookCfg, hookLog, hookLast>>

----------------------------------------------------------------------------
(* JavaScript values *)

Undef == [t |-> "undefined", s |-> "", n |-> 0]
Null == [t |-> "null", s |-> "", n |-> 0]
\* marks a property the object does not have
Absent == [t |-> "absent", s |-> "", n |-> 0]
Str(s) == [t |-> "string", s |-> s, n |-> 0]
Bool(b) == [t |-> "boolean", s |-> IF b THEN "true" ELSE "false", n |-> 0]
Num(n) == [t |-> "number", s |-> "", n |-> n]
\* a Date, by the ISO form of its time value ("Invalid Date" for NaN)
DateV(iso) == [t |-> "Date", s |-> iso, n |-> 0]
Ref(a) == [t |-> "object", s |-> "", n |-> a]
\* an array, by who created it; its elements are kept beside it
ArrayBy(owner) == [t |-> "array", s |-> owner, n |-> 0]

Truthy(v) ==
  CASE v.t = "undefined" -> FALSE
    [] v.t = "null" -> FALSE
    [] v.t = "absent" -> FALSE
    [] v.t = "boolean" -> v.s = "true"
    [] v.t = "string" -> v.s # ""
    [] v.t = "number" -> v.n # 0
    [] OTHER -> TRUE

Ids == {"x", "y"}
Fields == {"id", "shop", "state", "isOnline", "expires", "accessToken"}
TEST_SHOP == "test-shop.myshopify.io"

IsoShort == "2024-01-01T00:00:00Z"
IsoLong == "2024-01-01T00:00:00.000Z"
NotADate == "next tuesday"

\* Date.parse, through new Date(string): the time value of the string
DateParse(s) ==
  CASE s = IsoShort -> IsoLong
    [] s = IsoLong -> IsoLong
    [] OTHER -> "Invalid Date"

NewDate(v) == DateV(DateParse(v.s))

----------------------------------------------------------------------------
(* Objects *)

SlotOf(id) == CASE id = "x" -> 1 [] id = "y" -> 2
\* the address of an object the caller or a callback has just created
CbAddr == Cardinality(Ids) + 1
\* the address of an object the adapter has just created
ResAddr == Cardinality(Ids) + 2
Addr == 1 .. ResAddr

NoFields == [k \in Fields |-> Absent]
FreeObj == [cls |-> "free", f |-> NoFields]

Obj(cls, id, shop, isOnline, expires, token) ==
  [cls |-> cls,
   f |-> [k \in Fields |->
           CASE k = "id" -> id
             [] k = "shop" -> shop
             [] k = "state" -> IF cls = "NullProto" THEN Absent ELSE Str("st")
             [] k = "isOnline" -> isOnline
             [] k = "expires" -> expires
             [] k = "accessToken" -> token]]

\* reading a property: undefined when the object does not have it
Get(o, k) == IF o.f[k] = Absent THEN Undef ELSE o.f[k]

ExpiresValues == {Absent, DateV(IsoLong), Str(""), Str(IsoShort), Str(NotADate)}
StoredExpires == {Absent, Str(""), Str(IsoShort)}

\* what a caller hands to storeSession: a Session, or a record with an id
SInputs ==
  {Obj("Session", Str(id), Str(TEST_SHOP), Bool(FALSE), e, Str("tok")) :
     id \in Ids, e \in StoredExpires}
  \cup
  {Obj("Object", Str(id), Str(TEST_SHOP), Bool(TRUE), e, Absent) :
     id \in Ids, e \in StoredExpires}

\* the objects a load callback may build
LoadObjects(id) ==
  {Obj("Session", Str(id), Str(TEST_SHOP), Bool(TRUE), e, Str("tok")) :
     e \in ExpiresValues}
  \cup
  {Obj("Object", Str(id), Str(TEST_SHOP), Bool(FALSE), e, Str("tok")) :
     e \in ExpiresValues}
  \cup
  {Obj("Object", Str(id), Absent, Absent, Str(IsoLong), Absent),
   Obj("Object", Absent, Str(TEST_SHOP), Bool(FALSE), Str(IsoShort), Str("tok")),
   Obj("Object", Absent, Absent, Absent, Absent, Absent),
   Obj("NullProto", Str(id), Str(TEST_SHOP), Absent, Absent, Absent),
   Obj("NullProto", Absent, Str(TEST_SHOP), Absent, Absent, Absent)}

\* the values that are not objects
Primitives == {Undef, Null, Bool(FALSE), Num(0), Str(""), Str("abc")}

----------------------------------------------------------------------------
(* Outcomes of callbacks and of adapter calls *)

NoErr == [name |-> "", prefix |-> "", detail |-> ""]
\* what the callbacks throw
CbErrors == {[name |-> "Error", prefix |-> "", detail |-> "Error: connection lost"]}

NoCall == [kind |-> "none", val |-> Undef, arr |-> <<>>, err |-> NoErr]
Return(v) == [kind |-> "return", val |-> v, arr |-> <<>>, err |-> NoErr]
ReturnArray(owner, elems) ==
  [kind |-> "return", val |-> ArrayBy(owner), arr |-> elems, err |-> NoErr]
Throw(e) == [kind |-> "throw", val |-> Undef, arr |-> <<>>, err |-> e]

\* `${error}`
Describe(e) == e.detail

SessionStorageError(prefix, detail) ==
  [name |-> "SessionStorageError", prefix |-> prefix, detail |-> detail]

----------------------------------------------------------------------------
(* The heap *)

IsRef(v) == v.t = "object"
InstanceOfSession(h, v) == IsRef(v) /\ h[v.n].cls = "Session"
\* an object created with a null prototype is no instance of Object
InstanceOfObject(h, v) == IsRef(v) /\ h[v.n].cls \in {"Session", "Object"}
\* 'k' in v, for an object v
In(h, k, v) == h[v.n].f[k] # Absent

\* v.constructor.name; "" stands for an undefined v.constructor
ConstructorName(h, v) ==
  CASE v.t = "string" -> "String"
    [] v.t = "number" -> "Number"
    [] v.t = "boolean" -> "Boolean"
    [] v.t = "object" /\ h[v.n].cls = "Object" -> "Object"
    [] v.t = "object" /\ h[v.n].cls = "Session" -> "Session"
    [] OTHER -> ""

\* new Session(id, shop, state, isOnline): the four fields, as given
NewSession(id, shop, state, isOnline) ==
  [cls |-> "Session",
   f |-> [k \in Fields |->
           CASE k = "id" -> id
             [] k = "shop" -> shop
             [] k = "state" -> state
             [] k = "isOnline" -> isOnline
             [] OTHER -> Absent]]

\* {...a, ...b}: a new plain object with a's own properties, then b's over them
Spread(a, b) ==
  [cls |-> "Object",
   f |-> [k \in Fields |-> IF b.f[k] # Absent THEN b.f[k] ELSE a.f[k]]]

\* if (o.expires && typeof o.expires === 'string') o.expires = new Date(o.expires)
CoerceExpires(o) ==
  IF Truthy(o.f["expires"]) /\ o.f["expires"].t = "string"
  THEN [o EXCEPT !.f["expires"] = NewDate(o.f["expires"])]
  ELSE o

TypeErrorNoConstructor ==
  [name |-> "TypeError", prefix |-> "",
   detail |-> "Cannot read properties of undefined (reading 'name')"]

----------------------------------------------------------------------------
(* The adapter's methods.  cb is the outcome of the callback the method    *)
(* awaits; a method answers with its outcome, whether it warned, the       *)
(* callbacks it invoked and the heap it leaves.                            *)

Answer(out, warned, calls, h) ==
  [out |-> out, warned |-> warned, calls |-> calls, heap |-> h]

\* storeSession without its catch: the callback's own exception escapes
storeSessionUncaught(h, cb) ==
  IF cb.kind = "throw"
  THEN Answer(Throw(cb.err), FALSE, <<"storeSessionCallback">>, h)
  ELSE Answer(Return(cb.val), FALSE, <<"storeSessionCallback">>, h)

storeSession(h, cb) ==
  IF cb.kind = "throw"
  THEN Answer(Throw(SessionStorageError(
                "CustomSessionStorage failed to store a session. Error Details: ",
                Describe(cb.err))), FALSE, <<"storeSessionCallback">>, h)
  ELSE Answer(Return(cb.val), FALSE, <<"storeSessionCallback">>, h)

loadSession(h, cb) ==
  IF cb.kind = "throw"
  THEN Answer(Throw(SessionStorageError(
                "CustomSessionStorage failed to load a session. Error Details: ",
                Describe(cb.err))), FALSE, <<"loadSessionCallback">>, h)
  ELSE
    LET result == cb.val IN
    IF Truthy(result)
    THEN
      IF InstanceOfSession(h, result)
      THEN Answer(Return(result), FALSE, <<"loadSessionCallback">>,
                  [h EXCEPT ![result.n] = CoerceExpires(h[result.n])])
      ELSE IF InstanceOfObject(h, result) /\ In(h, "id", result)
      THEN
        LET rec == h[result.n]
            session == NewSession(Get(rec, "id"), Get(rec, "shop"),
                                  Get(rec, "state"), Get(rec, "isOnline"))
        IN Answer(Return(Ref(ResAddr)), FALSE, <<"loadSessionCallback">>,
                  [h EXCEPT ![ResAddr] = CoerceExpires(Spread(session, rec))])
      ELSE IF ConstructorName(h, result) = ""
      THEN Answer(Throw(TypeErrorNoConstructor), FALSE,
                  <<"loadSessionCallback">>, h)
      ELSE Answer(Throw(SessionStorageError(
                    "Expected return to be instanceof Session, but received instanceof ",
                    ConstructorName(h, result) \o ".")), FALSE,
                  <<"loadSessionCallback">>, h)
    ELSE Answer(Return(Undef), FALSE, <<"loadSessionCallback">>, h)

deleteSession(h, cb) ==
  IF cb.kind = "throw"
  THEN Answer(Throw(SessionStorageError(
                "CustomSessionStorage failed to delete a session. Error Details: ",
                Describe(cb.err))), FALSE, <<"deleteSessionCallback">>, h)
  ELSE Answer(Return(cb.val), FALSE, <<"deleteSessionCallback">>, h)

\* deleteSessions calling a callback that was never supplied
deleteSessionsUnguarded(h, hasCallback, cb) ==
  IF hasCallback
  THEN
    IF cb.kind = "throw"
    THEN Answer(Throw(SessionStorageError(
                  "CustomSessionStorage failed to delete array of sessions. Error Details: ",
                  Describe(cb.err))), FALSE, <<"deleteSessionsCallback">>, h)
    ELSE Answer(Return(cb.val), FALSE, <<"deleteSessionsCallback">>, h)
  ELSE Answer(Throw(SessionStorageError(
                "CustomSessionStorage failed to delete array of sessions. Error Details: ",
                "TypeError: this.deleteSessionsCallback is not a function")),
              FALSE, <<>>, h)

deleteSessions(h, hasCallback, cb) ==
  IF hasCallback
  THEN
    IF cb.kind = "throw"
    THEN Answer(Throw(SessionStorageError(
                  "CustomSessionStorage failed to delete array of sessions. Error Details: ",
                  Describe(cb.err))), FALSE, <<"deleteSessionsCallback">>, h)
    ELSE Answer(Return(cb.val), FALSE, <<"deleteSessionsCallback">>, h)
  ELSE Answer(Return(Bool(FALSE)), TRUE, <<>>, h)

\* findSessionsByShop treating each element as loadSession treats a Session
RECURSIVE CoerceAll(_, _)
CoerceAll(h, elems) ==
  IF elems = <<>> THEN h
  ELSE CoerceAll(IF IsRef(Head(elems))
                 THEN [h EXCEPT ![Head(elems).n] = CoerceExpires(h[Head(elems).n])]
                 ELSE h, Tail(elems))
findSessionsByShopNormalizing(h, hasCallback, cb) ==
  IF hasCallback
  THEN
    IF cb.kind = "throw"
    THEN Answer(Throw(SessionStorageError(
                  "CustomSessionStorage failed to find sessions by shop. Error Details: ",
                  Describe(cb.err))), FALSE, <<"findSessionsByShopCallback">>, h)
    ELSE IF Truthy(cb.val) /\ cb.val.t = "array"
    THEN Answer(ReturnArray("adapter", cb.arr), FALSE,
                <<"findSessionsByShopCallback">>, CoerceAll(h, cb.arr))
    ELSE Answer(ReturnArray("adapter", <<>>), FALSE,
                <<"findSessionsByShopCallback">>, h)
  ELSE Answer(ReturnArray("adapter", <<>>), TRUE, <<>>, h)

findSessionsByShop(h, hasCallback, cb) ==
  IF hasCallback
  THEN
    IF cb.kind = "throw"
    THEN Answer(Throw(SessionStorageError(
                  "CustomSessionStorage failed to find sessions by shop. Error Details: ",
                  Describe(cb.err))), FALSE, <<"findSessionsByShopCallback">>, h)
    ELSE IF Truthy(cb.val) /\ cb.val.t = "array"
    THEN Answer(ReturnArray("adapter", cb.arr), FALSE,
                <<"findSessionsByShopCallback">>, h)
    ELSE Answer(ReturnArray("adapter", <<>>), FALSE,
                <<"findSessionsByShopCallback">>, h)
  ELSE Answer(ReturnArray("adapter", <<>>), TRUE, <<>>, h)

----------------------------------------------------------------------------
(* State of the storage adapter and of the backend behind its callbacks *)

Range(q) == {q[i] : i \in 1 .. Len(q)}
StoreRefs(st) == {st[i].n : i \in {j \in Ids : IsRef(st[j])}}
RefsIn(l) ==
  {v.n : v \in {w \in ({l.arg, l.cb.val, l.out.val} \cup Range(l.cb.arr)
                        \cup Range(l.out.arr)) : IsRef(w)}}
\* objects nothing refers to any more are gone
Collect(h, st, l) ==
  [a \in Addr |-> IF a \in StoreRefs(st) \cup RefsIn(l) THEN h[a] ELSE FreeObj]

LoadedRef(l) ==
  IF l.op = "loadSession" /\ l.out.kind = "return" /\ IsRef(l.out.val)
  THEN {l.out.val.n} ELSE {}
\* the objects earlier loads returned that the backend still holds
Handed(st, replaced) ==
  ((handedOut \cup LoadedRef(last)) \cap StoreRefs(st)) \ replaced

Call(op, arg, ids, cb, r) ==
  [op |-> op, arg |-> arg, ids |-> ids,
   cb |-> IF r.calls = <<>> THEN NoCall ELSE cb,
   out |-> r.out, warned |-> r.warned, calls |-> r.calls]

NoLast ==
  [op |-> "new", arg |-> Undef, ids |-> <<>>, cb |-> NoCall,
   out |-> Return(Undef), warned |-> FALSE, calls |-> <<>>]

StorageConstructed ==
  /\ heap = [a \in Addr |-> FreeObj]
  /\ store = [i \in Ids |-> Undef]
  /\ snap = [i \in Ids |-> FreeObj]
  /\ handedOut = {}
  /\ last = NoLast

InitStorage ==
  /\ cfg \in [deleteMany : BOOLEAN, find : BOOLEAN]
  /\ StorageConstructed

StorageIdle ==
  /\ cfg = [deleteMany |-> FALSE, find |-> FALSE]
  /\ StorageConstructed

(* What the callbacks do.  A keyed backend keeps the object it is given     *)
(* under its id (the last writer wins) and gives that object back; a       *)
(* callback may also refuse, fail, or answer with a value of its own.      *)

Behaviour(do, obj, out) == [do |-> do, obj |-> obj, out |-> out]
Failures == {Behaviour("none", FreeObj, Throw(e)) : e \in CbErrors}
WriteBehaviours(do) ==
  {Behaviour(do, FreeObj, Return(Bool(TRUE))),
   Behaviour("none", FreeObj, Return(Bool(FALSE)))} \cup Failures
LoadBehaviours(id) ==
  {Behaviour("get", FreeObj, Return(store[id]))}
  \cup {Behaviour("make", o, Return(Ref(CbAddr))) : o \in LoadObjects(id)}
  \cup {Behaviour("none", FreeObj, Return(v)) : v \in Primitives}
  \cup Failures
IdOrder == <<"x", "y">>
Matches(shop) ==
  LET hit(i) == IsRef(store[i]) /\ heap[store[i].n].f["shop"] = Str(shop)
      ids == SelectSeq(IdOrder, hit)
  IN [k \in 1 .. Len(ids) |-> store[ids[k]]]
FindBehaviours(shop) ==
  {Behaviour("get", FreeObj, ReturnArray("callback", Matches(shop))),
   Behaviour("none", FreeObj, ReturnArray("callback", <<Str("abc"), Null>>)),
   Behaviour("make", Obj("Object", Str("x"), Str(shop), Bool(FALSE), Absent, Absent),
             Return(Ref(CbAddr))),
   Behaviour("none", FreeObj, Return(Undef)),
   Behaviour("none", FreeObj, Return(Str("abc")))}
  \cup Failures

----------------------------------------------------------------------------
(* One action per adapter call *)

StoreSession ==
  \E S \in SInputs, b \in WriteBehaviours("put") :
    LET id == S.f["id"].s
        adr == IF b.do = "put" THEN SlotOf(id) ELSE CbAddr
        r == storeSession([heap EXCEPT ![adr] = S], b.out)
    IN /\ store' = IF b.do = "put" THEN [store EXCEPT ![id] = Ref(adr)] ELSE store
       /\ snap' = IF b.do = "put" THEN [snap EXCEPT ![id] = S] ELSE snap
       /\ last' = Call("storeSession", Ref(adr), <<>>, b.out, r)
       /\ heap' = Collect(r.heap, store', last')
       /\ handedOut' = Handed(store', IF b.do = "put" THEN {adr} ELSE {})
       /\ UNCHANGED <<cfg, queryVars, hookVars>>

LoadSession ==
  \E id \in Ids :
    \E b \in LoadBehaviours(id) :
      LET h1 == IF b.do = "make" THEN [heap EXCEPT ![CbAddr] = b.obj] ELSE heap
          r == loadSession(h1, b.out)
      IN /\ last' = Call("loadSession", Str(id), <<>>, b.out, r)
         /\ heap' = Collect(r.heap, store, last')
         /\ handedOut' = Handed(store, {})
         /\ UNCHANGED <<cfg, store, snap, queryVars, hookVars>>

DeleteSession ==
  \E id \in Ids, b \in WriteBehaviours("del") :
    LET r == deleteSession(heap, b.out)
    IN /\ store' = IF b.do = "del" THEN [store EXCEPT ![id] = Undef] ELSE store
       /\ snap' = IF b.do = "del" THEN [snap EXCEPT ![id] = FreeObj] ELSE snap
       /\ last' = Call("deleteSession", Str(id), <<>>, b.out, r)
       /\ heap' = Collect(r.heap, store', last')
       /\ handedOut' = Handed(store', {})
       /\ UNCHANGED <<cfg, queryVars, hookVars>>

DeleteSessions ==
  \E ids \in {<<>>, <<"y">>, <<"x", "y">>}, b \in WriteBehaviours("del") :
    LET r == deleteSessions(heap, cfg.deleteMany, b.out)
        gone == IF r.calls # <<>> /\ b.do = "del" THEN Range(ids) ELSE {}
    IN /\ store' = [i \in Ids |-> IF i \in gone THEN Undef ELSE store[i]]
       /\ snap' = [i \in Ids |-> IF i \in gone THEN FreeObj ELSE snap[i]]
       /\ last' = Call("deleteSessions", Undef, ids, b.out, r)
       /\ heap' = Collect(r.heap, store', last')
       /\ handedOut' = Handed(store', {})
       /\ UNCHANGED <<cfg, queryVars, hookVars>>

FindSessionsByShop ==
  \E shop \in {TEST_SHOP, "other-shop.myshopify.io"} :
    \E b \in FindBehaviours(shop) :
      LET made == cfg.find /\ b.do = "make"
          h1 == IF made THEN [heap EXCEPT ![CbAddr] = b.obj] ELSE heap
          r == findSessionsByShop(h1, cfg.find, b.out)
      IN /\ last' = Call("findSessionsByShop", Str(shop), <<>>, b.out, r)
         /\ heap' = Collect(r.heap, store, last')
         /\ handedOut' = Handed(store, {})
         /\ UNCHANGED <<cfg, store, snap, queryVars, hookVars>>

----------------------------------------------------------------------------
(* queryArgs.  A string is the sequence of its characters. *)

MaxParams == 3

\* the characters in use, by ascending code unit
CodeOrder == <<" ", "&", "1", "7", "=", "B", "a", "b", "e", "i", "m", "p", "s", "t">>
Index(q, c) == CHOOSE i \in 1 .. Len(q) : q[i] = c
Code(c) == Index(CodeOrder, c)

Lower(c) == IF c = "B" THEN "b" ELSE c
IsUpper(c) == c = "B"
\* the collation's primary order: white space, punctuation, symbols, digits,
\* then the letters without regard to case
CollationOrder == <<" ", "&", "=", "1", "7", "a", "b", "e", "i", "m", "p", "s", "t">>
Primary(c) == Index(CollationOrder, Lower(c))

MinLen(a, b) == IF Len(a) < Len(b) THEN Len(a) ELSE Len(b)

\* a < b by code units: what the default sort and an ordinal comparison use
ByteLess(a, b) ==
  \E i \in 1 .. MinLen(a, b) + 1 :
    /\ \A j \in 1 .. i - 1 : a[j] = b[j]
    /\ \/ i > Len(a) /\ i <= Len(b)
       \/ i <= MinLen(a, b) /\ Code(a[i]) < Code(b[i])

\* a.localeCompare(b) < 0: primary differences first, then case (lower first)
LocaleLess(a, b) ==
  \/ \E i \in 1 .. MinLen(a, b) + 1 :
       /\ \A j \in 1 .. i - 1 : Primary(a[j]) = Primary(b[j])
       /\ \/ i > Len(a) /\ i <= Len(b)
          \/ i <= MinLen(a, b) /\ Primary(a[i]) < Primary(b[i])
  \/ /\ Len(a) = Len(b)
     /\ \A j \in 1 .. Len(a) : Primary(a[j]) = Primary(b[j])
     /\ \E i \in 1 .. Len(a) :
          /\ \A j \in 1 .. i - 1 : a[j] = b[j]
          /\ ~IsUpper(a[i]) /\ IsUpper(b[i])

\* Object.keys(query).sort((val1, val2) => val1.localeCompare(val2))
SortedKeys(S) ==
  CHOOSE q \in [1 .. Cardinality(S) -> S] :
    \A i, j \in 1 .. Cardinality(S) : i < j => LocaleLess(q[i], q[j])

\* the application/x-www-form-urlencoded form of one character
EncodeChar(c) ==
  CASE c = " " -> <<"+">>
    [] c = "&" -> <<"%", "2", "6">>
    [] c = "=" -> <<"%", "3", "D">>
    [] OTHER -> <<c>>

RECURSIVE Encode(_)
Encode(str) ==
  IF str = <<>> THEN <<>> ELSE EncodeChar(Head(str)) \o Encode(Tail(str))

\* URLSearchParams.toString(): encoded name=value pairs joined by &
RECURSIVE toString(_)
toString(args) ==
  IF args = <<>> THEN <<>>
  ELSE Encode(args[1][1]) \o <<"=">> \o Encode(args[1][2])
       \o (IF Len(args) > 1 THEN <<"&">> ELSE <<>>) \o toString(Tail(args))

\* crypto.createHmac('sha256', secretKey).update(body, 'utf8').digest(digest):
\* the digest is determined by, and stands for, the key and the body
createTestHmac(secretKey, body, digest) ==
  [alg |-> "sha256", key |-> secretKey, body |-> body, digest |-> digest]

Timestamp == <<"t", "i", "m", "e", "s", "t", "a", "m", "p">>

queryArgs(query, secret, now) ==
  LET q1 == IF Timestamp \in DOMAIN query THEN query
            ELSE [k \in DOMAIN query \cup {Timestamp} |->
                    IF k = Timestamp THEN now ELSE query[k]]
      keys == SortedKeys(DOMAIN q1)
      args == [i \in 1 .. Len(keys) |-> <<keys[i], q1[keys[i]]>>]
  IN [params |-> args,
      hmac |-> createTestHmac(secret, toString(args), "hex")]

QueryKeys == {<<"a">>, <<"B">>, <<"b">>, <<"s", " ", "p">>, Timestamp}
QueryValues == {<<"1", "7">>, <<"a", " ", "b">>, <<"1", "=", "&">>}
Secrets == {"testApiSecretKey", "sekrit"}
Clock == {<<"1", "7">>, <<"7", "1">>}

Queries ==
  UNION {[D -> QueryValues] : D \in {E \in SUBSET QueryKeys : Cardinality(E) <= MaxParams}}

NoHmac == createTestHmac("", <<>>, "")

NoParams == [params |-> <<>>, hmac |-> NoHmac]

QueryIdle ==
  /\ qIn = [query |-> <<>>, secret |-> "", now |-> <<>>]
  /\ qOut = NoParams

\* a test has its query, the app its secret, the clock its reading
InitQuery ==
  /\ qIn \in [query : Queries, secret : Secrets, now : Clock]
  /\ qOut = NoParams

QueryArgs ==
  /\ qOut = NoParams
  /\ qOut' = queryArgs(qIn.query, qIn.secret, qIn.now)
  /\ UNCHANGED <<qIn, storageVars, hookVars>>

----------------------------------------------------------------------------
(* triggerAfterAuthHook *)

MaxFlows == 2

Sessions == {[id |-> i, isOnline |-> o] : i \in Ids, o \in BOOLEAN}
\* what an afterAuth callback may throw or reject with
HookErrors ==
  {[name |-> "Error", prefix |-> "", detail |-> "Error: hook failed"],
   [name |-> "Response", prefix |-> "", detail |-> "302 /billing"]}
HookBehaviours == {Return(Undef)} \cup {Throw(e) : e \in HookErrors}

createAdminApiContext(session) == [session |-> session]
HookRedirect(isEmbeddedApp) ==
  IF isEmbeddedApp THEN "redirectFactory(params, request)" ELSE "remixRedirect"

\* triggerAfterAuthHook catching what the callback throws
triggerAfterAuthHookSwallowing(config, session, cb) ==
  IF config.afterAuth
  THEN [logged |-> <<"Running afterAuth hook">>,
        invoked |-> <<[session |-> session,
                       admin |-> createAdminApiContext(session),
                       redirect |-> HookRedirect(config.isEmbeddedApp)]>>,
        out |-> Return(Undef)]
  ELSE [logged |-> <<>>, invoked |-> <<>>, out |-> Return(Undef)]

\* cb is the outcome of the afterAuth callback, should it be invoked
triggerAfterAuthHook(config, session, cb) ==
  IF config.afterAuth
  THEN [logged |-> <<"Running afterAuth hook">>,
        invoked |-> <<[session |-> session,
                       admin |-> createAdminApiContext(session),
                       redirect |-> HookRedirect(config.isEmbeddedApp)]>>,
        out |-> cb]
  ELSE [logged |-> <<>>, invoked |-> <<>>, out |-> Return(Undef)]

HookConstructed ==
  /\ hookLog = <<>>
  /\ hookLast = [flow |-> 0, session |-> [id |-> "x", isOnline |-> FALSE],
                 cb |-> NoCall, logged |-> <<>>, invoked |-> <<>>,
                 out |-> Return(Undef)]

InitHook ==
  /\ hookCfg \in [afterAuth : BOOLEAN, isEmbeddedApp : BOOLEAN]
  /\ HookConstructed

HookIdle ==
  /\ hookCfg = [afterAuth |-> FALSE, isEmbeddedApp |-> FALSE]
  /\ HookConstructed

TriggerAfterAuthHook ==
  /\ hookLast.flow < MaxFlows
  /\ \E session \in Sessions, cb \in HookBehaviours :
       LET r == triggerAfterAuthHook(hookCfg, session, cb)
       IN /\ hookLast' = [flow |-> hookLast.flow + 1, session |-> session,
                          cb |-> IF r.invoked = <<>> THEN NoCall ELSE cb,
                          logged |-> r.logged, invoked |-> r.invoked,
                          out |-> r.out]
          /\ hookLog' = hookLog \o r.invoked
          /\ UNCHANGED <<hookCfg, storageVars, queryVars>>

----------------------------------------------------------------------------
(* Specifications *)

Init == InitStorage /\ QueryIdle /\ HookIdle
Next ==
  \/ StoreSession
  \/ LoadSession
  \/ DeleteSession
  \/ DeleteSessions
  \/ FindSessionsByShop
Spec == Init /\ [][Next]_vars

InitQ == StorageIdle /\ InitQuery /\ HookIdle
NextQ == QueryArgs
SpecQuery == InitQ /\ [][NextQ]_vars

InitH == StorageIdle /\ QueryIdle /\ InitHook
NextH == TriggerAfterAuthHook
SpecHook == InitH /\ [][NextH]_vars

----------------------------------------------------------------------------
(* Properties *)

IsLoad == last.op = "loadSession"
Loaded == IsLoad /\ last.out.kind = "return" /\ IsRef(last.out.val)
\* the load callback answered with what the keyed backend holds for the id
FromStore == IsLoad /\ last.cb.kind = "return" /\ IsRef(last.cb.val)
             /\ last.cb.val = store[last.arg.s]

\* C1: a session stored with success and not stored or deleted since comes
\* back from loadSession equal in every field, except that an expires that
\* was a string comes back as a timestamp.
C1_RoundTrip ==
  FromStore =>
    /\ Loaded
    /\ \A k \in Fields :
         LET was == Get(snap[last.arg.s], k)
             now == Get(heap[last.out.val.n], k)
         IN IF k = "expires" /\ was.t = "string"
            THEN now.t = "Date"
            ELSE now = was

\* C2: a callback that throws makes the call fail with one
\* SessionStorageError carrying the cause's description; otherwise
\* storeSession, deleteSession and deleteSessions return the callback's
\* boolean as it is.
C2_CallbackFailureWrapped ==
  /\ last.cb.kind = "throw" =>
       /\ last.out.kind = "throw"
       /\ last.out.err.name = "SessionStorageError"
       /\ last.out.err.detail = Describe(last.cb.err)
       /\ Len(last.calls) = 1
  /\ (last.cb.kind = "return"
      /\ last.op \in {"storeSession", "deleteSession", "deleteSessions"}) =>
       last.out = Return(last.cb.val)

C2_Witness ==
  /\ last.op = "deleteSessions"
  /\ last.cb.kind = "throw"
  /\ last.out.err.name = "SessionStorageError"

\* C3: the session loadSession returns never has an expires of string type.
C3_NoStringExpires ==
  Loaded => heap[last.out.val.n].f["expires"].t # "string"

\* C4: a plain record with an id that is no Session instance comes back as a
\* Session like one the constructor builds, with the record's id, shop,
\* state and isOnline and every other field of the record (a string expires
\* converted).
C4_RawRecordNormalized ==
  (/\ IsLoad /\ last.cb.kind = "return" /\ IsRef(last.cb.val)
   /\ ~InstanceOfSession(heap, last.cb.val)
   /\ InstanceOfObject(heap, last.cb.val)
   /\ In(heap, "id", last.cb.val)) =>
    /\ Loaded
    /\ heap[last.out.val.n].cls = "Session"
    /\ \A k \in Fields :
         LET was == heap[last.cb.val.n].f[k]
             now == heap[last.out.val.n].f[k]
         IN IF k \in {"id", "shop", "state", "isOnline"}
            THEN now = Get(heap[last.cb.val.n], k)
            ELSE IF k = "expires" /\ was.t = "string"
            THEN now = NewDate(was)
            ELSE now = was

\* C5: a present value that is neither a Session instance nor has an id
\* makes loadSession fail with a SessionStorageError; only an absent value
\* gives 'no session'.
C5_UnrecognizedRejected ==
  (IsLoad /\ last.cb.kind = "return") =>
    LET v == last.cb.val
        absent == v \in {Undef, Null}
        recognized == IsRef(v) /\ (InstanceOfSession(heap, v) \/ In(heap, "id", v))
    IN /\ (~absent /\ ~recognized) =>
            (last.out.kind = "throw" /\ last.out.err.name = "SessionStorageError")
       /\ last.out = Return(Undef) => absent

\* C6: without the delete-many callback deleteSessions returns false, and
\* without the find-by-shop callback findSessionsByShop returns an empty
\* sequence; both warn, neither throws nor invokes a callback.
C6_MissingCapabilityNonFatal ==
  /\ (last.op = "deleteSessions" /\ ~cfg.deleteMany) =>
       (last.out = Return(Bool(FALSE)) /\ last.warned /\ last.calls = <<>>)
  /\ (last.op = "findSessionsByShop" /\ ~cfg.find) =>
       (last.out = ReturnArray("adapter", <<>>) /\ last.warned /\ last.calls = <<>>)

C6_Witness ==
  /\ last.op = "deleteSessions" /\ ~cfg.deleteMany /\ Len(last.ids) = 2
  /\ \A i \in Ids : IsRef(store[i])
  /\ last.warned

\* C7: the object loadSession returns is not the one the callback returned,
\* not one the backend holds and not one an earlier load returned.
C7_FreshPerLoad ==
  Loaded =>
    /\ last.out.val # last.cb.val
    /\ last.out.val.n \notin StoreRefs(store)
    /\ last.out.val.n \notin handedOut

\* C10: with the callback supplied, findSessionsByShop returns a new
\* sequence of the callback's elements, in order and untouched; when the
\* callback's answer is no sequence it returns an empty sequence.
C10_Step ==
  (last'.op = "findSessionsByShop" /\ last'.cb.kind = "return") =>
    IF last'.cb.val.t = "array"
    THEN /\ last'.out.kind = "return"
         /\ last'.out.arr = last'.cb.arr
         /\ last'.out.val = ArrayBy("adapter")
         /\ \A i \in 1 .. Len(last'.cb.arr) :
              IsRef(last'.cb.arr[i]) =>
                heap'[last'.cb.arr[i].n] = heap[last'.cb.arr[i].n]
    ELSE last'.out = ReturnArray("adapter", <<>>)
----------------------------------------------------------------------------

\* the keys in ordinal order
SortedByCode(S) ==
  CHOOSE q \in [1 .. Cardinality(S) -> S] :
    \A i, j \in 1 .. Cardinality(S) : i < j => ByteLess(q[i], q[j])

\* key=value pairs joined by &, nothing encoded
RECURSIVE JoinPlain(_)
JoinPlain(args) ==
  IF args = <<>> THEN <<>>
  ELSE args[1][1] \o <<"=">> \o args[1][2]
       \o (IF Len(args) > 1 THEN <<"&">> ELSE <<>>) \o JoinPlain(Tail(args))

\* C8: queryArgs emits the parameters (timestamp added when missing) in
\* ordinal key order, and the hmac is the hex HMAC-SHA256, under the app's
\* secret, of the unencoded key=value pairs joined by &.
C8_SignedQuery ==
  qOut # NoParams =>
    LET q == qIn.query
        q1 == [k \in DOMAIN q \cup {Timestamp} |->
                 IF k \in DOMAIN q THEN q[k] ELSE qIn.now]
        keys == SortedByCode(DOMAIN q1)
        args == [i \in 1 .. Len(keys) |-> <<keys[i], q1[keys[i]]>>]
    IN /\ qOut.params = args
       /\ qOut.hmac = createTestHmac(qIn.secret, JoinPlain(args), "hex")

\* C9: a triggerAfterAuthHook call invokes the registered afterAuth once
\* (never when none is registered), with the session it was given and the
\* embedded redirect helper iff the app is embedded; what the callback throws
\* reaches the caller as it is, and the callback is not invoked again.
C9_HookOnce ==
  hookLast.flow > 0 =>
    /\ Len(hookLog) = IF hookCfg.afterAuth THEN hookLast.flow ELSE 0
    /\ hookCfg.afterAuth =>
         /\ Len(hookLast.invoked) = 1
         /\ hookLast.invoked[1].session = hookLast.session
         /\ (hookLast.invoked[1].redirect = "redirectFactory(params, request)")
              <=> hookCfg.isEmbeddedApp
         /\ hookLast.out = hookLast.cb
    /\ ~hookCfg.afterAuth =>
         (hookLast.invoked = <<>> /\ hookLast.out = Return(Undef))

C9_Witness ==
  /\ hookLast.flow = MaxFlows
  /\ hookCfg.afterAuth /\ hookCfg.isEmbeddedApp
  /\ hookLast.out.kind = "throw"
  /\ hookLast.out.err.name = "Response"
  /\ Len(hookLog) = MaxFlows

====
